---- MODULE Spec2Model ----
(***************************************************************************)
(* Model of lib/kernel.py: the KernelConnection class of Helium.            *)
(*                                                                         *)
(* The state is the connection's shared fields (shell_msg_queues, the      *)
(* Queue objects it hands out, id2region, _execution_state), the exit      *)
(* event and position of each of the three receiver threads, the position  *)
(* and locals of every thread that is inside get_complete, get_inspection  *)
(* or execute_code, and the messages the kernel has put on the three       *)
(* channels of the client and that have not been polled yet.               *)
(*                                                                         *)
(* The logger handed to __init__ is taken to be a working logger: its      *)
(* methods return.  Message ids returned by client.execute / complete /    *)
(* inspect are fresh, as jupyter_client makes them.                        *)
(***************************************************************************)
EXTENDS Integers, Sequences, FiniteSets, TLC

(* ------------------------------ bounds -------------------------------- *)

\* Number of requests (execute, complete, inspect) the client sends.
MaxIds == 2

\* Number of notifications the kernel publishes on the iopub channel.
MaxNotes == 3

\* Number of requests, and of messages per channel, in the specifications
\* that run all three receivers.
MaxMsgs == 1

\* Number of matches in a complete_reply.
MaxMatches == 2

\* Threads that call get_complete / get_inspection / execute_code.
Callers == {"c1", "c2"}

\* The three receiver threads started by _init_receivers.
Receivers == {"shell", "iopub", "stdin"}

Ids == 1..MaxIds

\* A message whose parent_header has no "msg_id" key.
NoId == 0

\* "No Queue object": the value of a local that holds no queue.
NoQueue == 0

(* --------------------------- enumerations ----------------------------- *)

\* Names of the members of class MsgType.
MsgTypeNames ==
    {"EXECUTE_INPUT", "EXECUTE_REQUEST", "EXECUTE_RESULT", "EXECUTE_REPLY",
     "COMPLETE_REQUEST", "COMPLETE_REPLY", "DISPLAY_DATA", "INSPECT_REQUEST",
     "INSPECT_REPLY", "INPUT_REQUEST", "INPUT_REPLY", "ERROR", "STREAM",
     "STATUS", "UNKNOWN"}

\* Names of the members of class ExecState.
ExecStateNames == {"BUSY", "IDLE", "STARTING", "UNKNOWN"}

\* Labels the kernel may put in the execution_state field of a status
\* notification: the three of the protocol, and two that are not.
Labels == {"busy", "idle", "starting", "unknown", "dead"}

\* msg_type strings of the notifications the kernel publishes on iopub.
IOPubTypes == {"status", "stream", "comm_open"}

\* str.upper() on the strings that occur.
Upper(s) ==
    CASE s = "busy"          -> "BUSY"
      [] s = "idle"          -> "IDLE"
      [] s = "starting"      -> "STARTING"
      [] s = "unknown"       -> "UNKNOWN"
      [] s = "dead"          -> "DEAD"
      [] s = "status"        -> "STATUS"
      [] s = "stream"        -> "STREAM"
      [] s = "comm_open"     -> "COMM_OPEN"
      [] s = "input_request" -> "INPUT_REQUEST"
      [] s = "execute_input" -> "EXECUTE_INPUT"
      [] s = "execute_result" -> "EXECUTE_RESULT"
      [] s = "display_data"  -> "DISPLAY_DATA"
      [] s = "error"         -> "ERROR"
      [] OTHER               -> s

\* The result of a lookup that raises KeyError.
KeyError == "KeyError"

\* MsgType[msg["msg_type"].upper()], with the fallback of the except clause.
ParseMsgType(msg_type) ==
    IF Upper(msg_type) \in MsgTypeNames THEN Upper(msg_type) ELSE "UNKNOWN"

\* A variant of ParseExecState that maps the label "starting" to BUSY.
ParseExecStateStartingBusy(label) ==
    IF label = "starting" THEN "BUSY"
    ELSE IF Upper(label) \in ExecStateNames THEN Upper(label) ELSE KeyError

\* ExecState[content["execution_state"].upper()]: the member, or KeyError.
ParseExecState(label) ==
    IF Upper(label) \in ExecStateNames THEN Upper(label) ELSE KeyError

(* ------------------------------ messages ------------------------------ *)

\* A Python value that is a str.
Str(s) == [py |-> "str", v |-> s]

\* A Python value that is the member of the Enum MsgType with this name.
MsgTypeMember(name) == [py |-> "MsgType", v |-> name]

\* a == b in Python for a str or Enum member a and an Enum member b: Enum
\* defines no __eq__ of its own, so a member equals nothing but itself.
PyEq(a, b) == a = b

\* The Python value None.
PyNone == [py |-> "NoneType", v |-> <<>>]

\* A shell message is represented by its parent_header's msg_id (NoId when
\* the key is missing).
ShellMsgs == [parent_id : Ids \cup {NoId}]

\* An iopub notification: its msg_type, the execution_state label (status
\* only) and whether the fields its handler reads are all there.
IOPubMsgs ==
    [msg_type : {"status"}, execution_state : Labels, fields : {TRUE}]
    \cup [msg_type : IOPubTypes \ {"status"}, execution_state : {""},
          fields : BOOLEAN]

\* A stdin message: its msg_type, whether it has "msg_type" and "content",
\* and the password flag of its content.
StdinMsgs ==
    [msg_type : {"input_request"}, fields : {TRUE}, password : BOOLEAN]
    \cup {[msg_type |-> "input_request", fields |-> FALSE, password |-> FALSE]}

\* The value of a receiver's msg local when it holds no message.
NoMsg == [msg_type |-> "none"]

\* No list has been returned by get_complete.
NoList == "none"

\* The iopub receiver has handled no content notification yet.
NoShow == [msg |-> NoMsg]

\* shell_msg_queues_lock is held by no thread.
Free == "free"

\* A status notification with the given execution_state label.
StatusMsg(label) ==
    [msg_type |-> "status", execution_state |-> label, fields |-> TRUE]

\* A stream notification, with or without the fields its handler reads.
StreamMsg(fields) ==
    [msg_type |-> "stream", execution_state |-> "", fields |-> fields]

\* The notifications published in the specifications that run all three
\* receivers: a status that parses, one that does not, and a stream.
FewNotes == {StatusMsg("idle"), StatusMsg("dead"), StreamMsg(TRUE)}

\* A str is the sequence of its pieces.  The escape character, the letter
\* m, the blank and the newline are pieces of their own wherever they count;
\* no other piece stands for text that holds one of them.
ESC == "ESC"

\* The pieces str.strip() and str.splitlines() look at.
Blank == " "
Newline == "\n"

\* The keys a mime bundle may have, and the payload that comes with each.
MimeTypes == {"text/plain", "text/html", "image/png"}

Payload(mime) ==
    CASE mime = "text/plain" -> <<"a", " ", "b", "\n", "c">>
      [] mime = "text/html"  -> <<"<b>", "a", "</b>">>
      [] mime = "image/png"  -> <<"iVBORw0KGgo=", "\n">>

\* content["data"] of a display_data or execute_result notification.
Bundles == {[k \in ks |-> Payload(k)] : ks \in SUBSET MimeTypes}

\* content["text"] of a stream notification: nothing, or some output.
StreamTexts == {<<>>, <<"a", " ", "b", "\n">>}

\* content["traceback"] of an error notification: lines with and without
\* colour escapes.
Tracebacks ==
    {<<<<ESC, "[0;31", "m", "KeyError", ESC, "[0", "m">>,
       <<ESC, "[1;32", "m", "<cell>", ESC, "[0", "m", " ", "d['x']">>>>,
     <<<<"KeyError: 'x'">>>>}

\* A content notification: its msg_type, whether the fields its handler
\* reads are all there, the msg_id of its parent_header (NoId when it has
\* none) and its content.
Note(type, fields, parent, content) ==
    [msg_type |-> type, execution_state |-> "", fields |-> fields,
     parent_id |-> parent, content |-> content]

\* The content notifications the kernel publishes: input echo, error,
\* display data, execute result and stream.
ContentNotes ==
    UNION {
      {Note("execute_input", f, p, [code |-> <<"d['x']">>, execution_count |-> <<"1">>]) :
         f \in BOOLEAN}
      \cup {Note("error", TRUE, p,
                 [execution_count |-> <<"1">>, ename |-> <<"KeyError">>,
                  evalue |-> <<"'x'">>, traceback |-> tb]) : tb \in Tracebacks}
      \cup {Note(t, TRUE, p, [data |-> b]) :
                 t \in {"display_data", "execute_result"}, b \in Bundles}
      \cup {Note("stream", TRUE, p, [name |-> <<"stdout">>, text |-> txt]) :
                 txt \in StreamTexts}
      \cup {Note("stream", FALSE, p, [name |-> <<"stdout">>, text |-> <<>>])}
      : p \in Ids \cup {NoId}}

\* The texts a completion may have.
MatchTexts == {<<"foo">>, <<"foobar">>}

\* content["matches"] of a complete_reply.
Matches == UNION {[1..n -> MatchTexts] : n \in 0..MaxMatches}

\* The type hints the kernel may send along with matches: one for each
\* match, with its text, and a type that is a str or None.
Hints(matches) ==
    {[i \in 1..Len(matches) |-> [text |-> matches[i], type |-> types[i]]] :
       types \in [1..Len(matches) -> {PyNone, Str(<<"function">>)}]}

\* The content of a complete_reply: its matches, and its metadata with or
\* without the key _jupyter_types_experimental.
CompleteContents ==
    UNION {
      {[matches |-> ms, metadata |-> [k \in {} |-> <<>>]]}
      \cup {[matches |-> ms,
              metadata |-> [k \in {"_jupyter_types_experimental"} |-> hs]] :
               hs \in Hints(ms)}
      : ms \in Matches}

\* A complete_reply with its content.
CompleteReplies == [parent_id : Ids, content : CompleteContents]

(* ------------------------------ strings ------------------------------- *)

RECURSIVE remove_ansi_escape(_)
\* ANSI_ESCAPE_PATTERN.sub("", text) for the pattern \x1b[^m]*m: from left
\* to right, an escape character and everything up to the next m go.
remove_ansi_escape(text) ==
    IF text = <<>> THEN <<>>
    ELSE IF Head(text) = ESC /\ \E j \in 2..Len(text) : text[j] = "m"
         THEN LET j == CHOOSE i \in 2..Len(text) :
                         text[i] = "m" /\ \A k \in 2..(i - 1) : text[k] # "m"
              IN  remove_ansi_escape(SubSeq(text, j + 1, Len(text)))
         ELSE <<Head(text)>> \o remove_ansi_escape(Tail(text))

\* fix_whitespace_for_phantom: every blank becomes &nbsp;, and the lines of
\* text.splitlines() are joined with <br> (so a newline that ends the text
\* goes, and every other one becomes <br>).
fix_whitespace_for_phantom(text) ==
    LET nbsp == [i \in 1..Len(text) |->
                   IF text[i] = Blank THEN "&nbsp;" ELSE text[i]]
        body == IF nbsp # <<>> /\ nbsp[Len(nbsp)] = Newline
                THEN SubSeq(nbsp, 1, Len(nbsp) - 1) ELSE nbsp
    IN  [i \in 1..Len(body) |-> IF body[i] = Newline THEN "<br>" ELSE body[i]]

RECURSIVE Join(_)
\* "\n".join(lines).
Join(lines) ==
    IF lines = <<>> THEN <<>>
    ELSE IF Len(lines) = 1 THEN lines[1]
    ELSE lines[1] \o <<Newline>> \o Join(Tail(lines))

RECURSIVE Strip(_)
\* str.strip(): without the blanks and newlines at either end.
Strip(text) ==
    IF text = <<>> THEN <<>>
    ELSE IF Head(text) \in {Blank, Newline} THEN Strip(Tail(text))
    ELSE IF text[Len(text)] \in {Blank, Newline}
         THEN Strip(SubSeq(text, 1, Len(text) - 1))
    ELSE text

\* STREAM_PHANTOM.format(name=name, content=content).
STREAM_PHANTOM(name, content) ==
    <<"<div class=">> \o name \o <<">">> \o content \o <<"</div>">>

\* TEXT_PHANTOM.format(content=content).
TEXT_PHANTOM(content) ==
    <<"<body id=helium-result>">> \o content \o <<"</body>">>

\* IMAGE_PHANTOM.format(data=data).
IMAGE_PHANTOM(data) ==
    <<"<body id=helium-image-result><img src=data:image/png;base64,">>
    \o data \o <<"/></body>">>

(* ------------------------------- state -------------------------------- *)

VARIABLES
    _execution_state,   \* self._execution_state: a member of ExecState
    shell_msg_queues,   \* self.shell_msg_queues: msg_id -> Queue object
    queues,             \* the Queue objects ever created: object -> contents
    id2region,          \* keys of self.id2region
    nextId,             \* the next msg_id the client hands out
    pending,            \* request ids the kernel has not replied to on shell
    chan,               \* per channel: messages sent and not yet polled
    nIOPub,             \* notifications published so far
    nStdin,             \* stdin messages sent so far
    lastStatus,         \* label of the last recognised status published
    exit,               \* per receiver: its exit Event
    pc,                 \* per receiver: where its run() is
    rmsg,               \* per receiver: the msg local
    rqueue,             \* shell receiver: the queue local
    cpc,                \* per caller: where its call is
    ckind,              \* per caller: which method it is in
    observed,           \* per caller: the execution state get_complete read
    cid,                \* per caller: the msg_id local (of its last call,
                        \* once that has returned)
    cqueue,             \* per caller: the queue local
    got,                \* per caller: parent id of recv_msg (NoId: none)
    result,             \* per caller: how the call ended
    returned,           \* per caller: the list get_complete returned
    shown,              \* iopub receiver: what its last content handling did
    prompted,           \* stdin receiver: the prompts it has opened
    lock,               \* shell_msg_queues_lock: the thread that holds it
    early               \* msg_ids whose reply the shell receiver got from the
                        \* channel while the caller had sent the request and
                        \* not yet looked its queue up

vars ==
    <<_execution_state, shell_msg_queues, queues, id2region, nextId, pending,
      chan, nIOPub, nStdin, lastStatus, exit, pc, rmsg, rqueue, cpc, ckind,
      observed, cid, cqueue, got, result, returned, shown, prompted, lock,
      early>>

connVars == <<_execution_state, shell_msg_queues, queues, id2region>>
kernelVars == <<nextId, pending, chan, nIOPub, nStdin, lastStatus>>
recvVars == <<exit, pc, rmsg, rqueue>>
callVars == <<cpc, ckind, observed, cid, cqueue, got, result>>
viewVars == <<returned, shown, prompted, lock, early>>

\* KernelConnection.__init__ followed by _init_receivers: empty registry,
\* state UNKNOWN, three receivers started with their exit events clear.
Init ==
    /\ _execution_state = "UNKNOWN"
    /\ shell_msg_queues = [id \in {} |-> NoQueue]
    /\ queues = <<>>
    /\ id2region = {}
    /\ nextId = 1
    /\ pending = {}
    /\ chan = [r \in Receivers |-> <<>>]
    /\ nIOPub = 0
    /\ nStdin = 0
    /\ lastStatus = "none"
    /\ exit = [r \in Receivers |-> FALSE]
    /\ pc = [r \in Receivers |-> "check"]
    /\ rmsg = [r \in Receivers |-> NoMsg]
    /\ rqueue = NoQueue
    /\ cpc = [c \in Callers |-> "idle"]
    /\ ckind = [c \in Callers |-> "none"]
    /\ observed = [c \in Callers |-> "none"]
    /\ cid = [c \in Callers |-> NoId]
    /\ cqueue = [c \in Callers |-> NoQueue]
    /\ got = [c \in Callers |-> NoId]
    /\ result = [c \in Callers |-> "none"]
    /\ returned = [c \in Callers |-> NoList]
    /\ shown = NoShow
    /\ prompted = <<>>
    /\ lock = Free
    /\ early = {}

(* ------------------------- shared structures -------------------------- *)

\* A variant of DefaultDictGet that hands out the queue of the smallest
\* registered id, whatever the key asked for.
DefaultDictGetFirst(reg, heap, id) ==
    IF DOMAIN reg # {}
    THEN [reg |-> reg, heap |-> heap,
          queue |-> reg[CHOOSE k \in DOMAIN reg : \A j \in DOMAIN reg : k <= j]]
    ELSE [reg |-> [k \in {id} |-> Len(heap) + 1],
          heap |-> Append(heap, <<>>), queue |-> Len(heap) + 1]

\* self.shell_msg_queues[id] on a defaultdict(Queue): the Queue stored under
\* id; when there is none, a new empty Queue is created, stored under id and
\* returned.  Yields the registry, the Queue objects and the queue returned.
DefaultDictGet(reg, heap, id) ==
    IF id \in DOMAIN reg
    THEN [reg |-> reg, heap |-> heap, queue |-> reg[id]]
    ELSE [reg |-> [k \in DOMAIN reg \cup {id} |->
                     IF k = id THEN Len(heap) + 1 ELSE reg[k]],
          heap |-> Append(heap, <<>>), queue |-> Len(heap) + 1]

\* A variant of PopEntry that leaves the registry as it is.
PopEntryKeeps(reg, id) == reg

\* self.shell_msg_queues.pop(id, None): the registry without the key id.
PopEntry(reg, id) == [k \in DOMAIN reg \ {id} |-> reg[k]]

\* queue.put(msg) on the Queue object q.
QueuePut(heap, q, msg) == [heap EXCEPT ![q] = Append(@, msg)]

\* A variant of CanAcquire that lets a thread in whoever holds the lock.
CanAcquireAlways(owner, t) == TRUE

\* shell_msg_queues_lock.acquire() in thread t returns when the RLock is
\* held by no thread, or by t itself.
CanAcquire(owner, t) == owner \in {Free, t}

\* A variant of Release in which the lock stays with thread t when the code
\* between acquire() and release() raised (release() after the try block
\* instead of in its finally clause).
ReleaseUnlessRaised(t, raised) == IF raised THEN t ELSE Free

\* shell_msg_queues_lock.release() in the finally clause that follows every
\* acquire(): the lock is free again, whether the code in between raised or
\* not.
Release(t, raised) == Free

(* ------------------------------ the kernel ---------------------------- *)

\* The kernel answers request id on the shell channel; the reply names its
\* parent, or (a malformed message) carries no parent msg_id.
KernelShellReply(id) ==
    /\ id \in pending
    /\ \E p \in {id, NoId} :
         chan' = [chan EXCEPT !["shell"] = Append(@, [parent_id |-> p])]
    /\ pending' = pending \ {id}
    /\ UNCHANGED <<nextId, nIOPub, nStdin, lastStatus>>
    /\ UNCHANGED <<connVars, recvVars, callVars>>
    /\ UNCHANGED viewVars

\* The kernel answers the complete_request id with a complete_reply that
\* has the given content.
KernelCompleteReply(id, content) ==
    /\ id \in pending
    /\ chan' = [chan EXCEPT !["shell"] =
                  Append(@, [parent_id |-> id, content |-> content])]
    /\ pending' = pending \ {id}
    /\ UNCHANGED <<nextId, nIOPub, nStdin, lastStatus>>
    /\ UNCHANGED <<connVars, recvVars, callVars>>
    /\ UNCHANGED viewVars

\* The kernel publishes notification m on the iopub channel.
KernelPublish(m) ==
    /\ nIOPub < MaxNotes
    /\ chan' = [chan EXCEPT !["iopub"] = Append(@, m)]
    /\ nIOPub' = nIOPub + 1
    /\ lastStatus' =
         IF m.msg_type = "status" /\ ParseExecState(m.execution_state) # KeyError
         THEN m.execution_state ELSE lastStatus
    /\ UNCHANGED <<nextId, pending, nStdin>>
    /\ UNCHANGED <<connVars, recvVars, callVars>>
    /\ UNCHANGED viewVars

\* The kernel sends message m on the stdin channel.
KernelStdin(m) ==
    /\ nStdin < MaxMsgs
    /\ chan' = [chan EXCEPT !["stdin"] = Append(@, m)]
    /\ nStdin' = nStdin + 1
    /\ UNCHANGED <<nextId, pending, nIOPub, lastStatus>>
    /\ UNCHANGED <<connVars, recvVars, callVars>>
    /\ UNCHANGED viewVars

(* ----------------------------- rendering ------------------------------ *)

\* What a piece of handler code did: the calls it made to the writing
\* methods of KernelConnection (each with the place it was made from and its
\* text), the calls those made to the editor (append to the output view,
\* phantom below it, phantom at the target region), and the exception that
\* ended it, if any.
Done == [calls |-> <<>>, effects |-> <<>>, error |-> "none"]

\* The code raises e at once.
Raise(e) == [calls |-> <<>>, effects |-> <<>>, error |-> e]

\* Statement a, then statement b unless a raised.
Then(a, b) ==
    IF a.error # "none" THEN a
    ELSE [calls |-> a.calls \o b.calls, effects |-> a.effects \o b.effects,
          error |-> b.error]

\* try: a / except AttributeError: pass.
ExceptAttributeError(a) ==
    IF a.error = "AttributeError" THEN [a EXCEPT !.error = "none"] ELSE a

\* One call of a writing method from the place site, with what it did.
Call(fn, site, arg, effects, error) ==
    [calls |-> <<[fn |-> fn, site |-> site, arg |-> arg]>>,
     effects |-> effects, error |-> error]

\* _write_text_to_view: nothing when inline output is on; else the text is
\* appended to the output view.
_write_text_to_view(site, text, inline) ==
    Call("_write_text_to_view", site, text,
         IF inline THEN <<>>
         ELSE <<[op |-> "append", site |-> site, arg |-> text]>>,
         "none")

\* _write_phantom: nothing when inline output is on; else a phantom at the
\* end of the output view.
_write_phantom(site, content, inline) ==
    Call("_write_phantom", site, content,
         IF inline THEN <<>>
         ELSE <<[op |-> "block_phantom", site |-> site, arg |-> content]>>,
         "none")

\* _write_inline_html_phantom: when inline output is on, view.add_phantom at
\* the region; view is None when no target was found, and then the attribute
\* lookup raises AttributeError.
_write_inline_html_phantom(site, content, target, inline) ==
    IF ~inline THEN Call("_write_inline_html_phantom", site, content, <<>>, "none")
    ELSE IF ~target
         THEN Call("_write_inline_html_phantom", site, content, <<>>,
                   "AttributeError")
         ELSE Call("_write_inline_html_phantom", site, content,
                   <<[op |-> "inline_phantom", site |-> site,
                      arg |-> TEXT_PHANTOM(content)]>>,
                   "none")

\* _write_inline_image_phantom: the same with IMAGE_PHANTOM.
_write_inline_image_phantom(site, data, target, inline) ==
    IF ~inline THEN Call("_write_inline_image_phantom", site, data, <<>>, "none")
    ELSE IF ~target
         THEN Call("_write_inline_image_phantom", site, data, <<>>,
                   "AttributeError")
         ELSE Call("_write_inline_image_phantom", site, data,
                   <<[op |-> "inline_phantom", site |-> site,
                      arg |-> IMAGE_PHANTOM(data)]>>,
                   "none")

\* _output_input_code.
_output_input_code(code, execution_count, inline) ==
    _write_text_to_view("input.code",
                        <<"In[">> \o execution_count \o <<"]: ">> \o code,
                        inline)

\* _handle_error.  lines is assigned the first string literal as it stands;
\* the second literal, with the .format call, is a statement of its own
\* whose value is dropped.
_handle_error(execution_count, ename, evalue, traceback, target, inline) ==
    LET lines == remove_ansi_escape(
                   <<"\nError[", "{execution_count}", "]: ", "{ename}", ", ",
                     "{evalue}", ".">>)
    IN  ExceptAttributeError(
          Then(_write_text_to_view("error.text", lines, inline),
               IF target
               THEN _write_inline_html_phantom(
                      "error.inline",
                      STREAM_PHANTOM(<<"error">>,
                                     fix_whitespace_for_phantom(lines)),
                      target, inline)
               ELSE Done))

\* _handle_stream.
_handle_stream(name, text, target, inline) ==
    LET lines == <<"\n(">> \o name \o <<"):\n">> \o text
        phantom_html == STREAM_PHANTOM(name, fix_whitespace_for_phantom(text))
    IN  ExceptAttributeError(
          Then(_write_text_to_view("stream.text", lines, inline),
               IF phantom_html # <<>> /\ target
               THEN _write_inline_html_phantom("stream.inline", phantom_html,
                                               target, inline)
               ELSE Done))

\* _write_mime_data_to_view: the text/plain branch, or else the text/html
\* branch, and after it the image/png branch.
_write_mime_data_to_view(mime_data, target, inline) ==
    Then(IF "text/plain" \in DOMAIN mime_data
         THEN LET content == mime_data["text/plain"]
              IN  Then(_write_text_to_view(
                         "plain.text", <<"\n(display data): ">> \o content,
                         inline),
                       _write_inline_html_phantom(
                         "plain.inline", fix_whitespace_for_phantom(content),
                         target, inline))
         ELSE IF "text/html" \in DOMAIN mime_data
              THEN LET content == mime_data["text/html"]
                   IN  Then(_write_phantom("html.block", content, inline),
                            _write_inline_html_phantom("html.inline", content,
                                                       target, inline))
              ELSE Done,
         IF "image/png" \in DOMAIN mime_data
         THEN LET data == Strip(mime_data["image/png"])
              IN  Then(_write_phantom(
                         "image.block",
                         <<"<body><img src=data:image/png;base64,">> \o data
                         \o <<"/></body>">>,
                         inline),
                       _write_inline_image_phantom("image.inline", data,
                                                   target, inline))
         ELSE Done)

\* A variant of Id2RegionGet that finds a target for every id.
Id2RegionGetAlways(recorded, id) == TRUE

\* self._kernel.id2region.get(msg_id, (None, None)): whether view and region
\* are a recorded target (TRUE) or both None (FALSE).
Id2RegionGet(recorded, id) == id \in recorded

\* The branches of IOPubMessageReceiver.run for a content notification.
\* The arguments of a call are evaluated before it, so a missing field
\* raises KeyError before the handler is entered.
IOPubContent(msg, target, inline) ==
    LET msg_type == ParseMsgType(msg.msg_type)
        content == msg.content
    IN  CASE msg_type = "EXECUTE_INPUT" ->
               Then(_write_text_to_view("input.blank", <<"\n\n">>, inline),
                    IF msg.fields
                    THEN _output_input_code(content.code,
                                            content.execution_count, inline)
                    ELSE Raise("KeyError"))
          [] msg_type = "ERROR" ->
               IF msg.fields
               THEN _handle_error(content.execution_count, content.ename,
                                  content.evalue, content.traceback,
                                  target, inline)
               ELSE Raise("KeyError")
          [] msg_type \in {"DISPLAY_DATA", "EXECUTE_RESULT"} ->
               IF msg.fields
               THEN _write_mime_data_to_view(content.data, target, inline)
               ELSE Raise("KeyError")
          [] msg_type = "STREAM" ->
               IF msg.fields
               THEN _handle_stream(content.name, content.text, target, inline)
               ELSE Raise("KeyError")
          [] OTHER -> Done

(* --------------------------- receiver loops --------------------------- *)

\* A variant of LoopCondition that never looks at the exit event.
LoopConditionForever(exitSet) == TRUE

\* The loop condition of every run(): while not self.exit.is_set().
LoopCondition(exitSet) == ~exitSet

\* A variant of AfterIteration in which an exception ends run().
AfterIterationDies(raised) == IF raised THEN "done" ELSE "check"

\* Where run() goes when an iteration ends, normally or in one of its two
\* except clauses (Empty: pass; Exception: log): back to the loop condition.
AfterIteration(raised) == "check"

\* MessageReceiver.shutdown: set the exit event.
Shutdown(r) ==
    /\ ~exit[r]
    /\ exit' = [exit EXCEPT ![r] = TRUE]
    /\ UNCHANGED <<pc, rmsg, rqueue>>
    /\ UNCHANGED <<connVars, kernelVars, callVars>>
    /\ UNCHANGED viewVars

\* The while test of run(): poll again, or leave the loop.
LoopCheck(r) ==
    /\ pc[r] = "check"
    /\ pc' = [pc EXCEPT ![r] = IF LoopCondition(exit[r]) THEN "poll" ELSE "done"]
    /\ UNCHANGED <<exit, rmsg, rqueue>>
    /\ UNCHANGED <<connVars, kernelVars, callVars>>
    /\ UNCHANGED viewVars

\* The msg_ids among ids whose request a get_complete / get_inspection call
\* has sent (client.complete / client.inspect returned the id) while the
\* call has not yet evaluated self.shell_msg_queues[msg_id].
InGap(ids) ==
    {id \in ids : \E c \in Callers : cpc[c] = "register" /\ cid[c] = id}

\* client.get_shell_msg / get_iopub_msg / get_stdin_msg (timeout=1): the
\* oldest message of the channel, Empty when there is none, or an error of
\* the transport.
Poll(r) ==
    /\ pc[r] = "poll"
    /\ \/ /\ chan[r] # <<>>
          /\ rmsg' = [rmsg EXCEPT ![r] = Head(chan[r])]
          /\ chan' = [chan EXCEPT ![r] = Tail(@)]
          /\ pc' = [pc EXCEPT ![r] = "handle"]
          /\ early' = IF r = "shell"
                      THEN early \cup InGap({Head(chan[r]).parent_id})
                      ELSE early
       \/ /\ chan[r] = <<>>
          /\ pc' = [pc EXCEPT ![r] = AfterIteration(FALSE)]
          /\ UNCHANGED <<rmsg, chan, early>>
       \/ /\ pc' = [pc EXCEPT ![r] = AfterIteration(TRUE)]
          /\ UNCHANGED <<rmsg, chan, early>>
    /\ UNCHANGED <<exit, rqueue>>
    /\ UNCHANGED <<nextId, pending, nIOPub, nStdin, lastStatus>>
    /\ UNCHANGED <<connVars, callVars>>
    /\ UNCHANGED <<returned, shown, prompted, lock>>

\* ShellMessageReceiver.run, from shell_msg_queues_lock.acquire() to
\* release(): look the queue of the message's parent id up (KeyError when
\* the message names none).
ShellLookup ==
    /\ pc["shell"] = "handle"
    /\ CanAcquire(lock, "shell")
    /\ lock' = Release("shell", rmsg["shell"].parent_id = NoId)
    /\ IF rmsg["shell"].parent_id = NoId
       THEN /\ pc' = [pc EXCEPT !["shell"] = AfterIteration(TRUE)]
            /\ rmsg' = [rmsg EXCEPT !["shell"] = NoMsg]
            /\ UNCHANGED <<shell_msg_queues, queues, rqueue>>
       ELSE LET got_ == DefaultDictGet(shell_msg_queues, queues,
                                       rmsg["shell"].parent_id)
            IN  /\ shell_msg_queues' = got_.reg
                /\ queues' = got_.heap
                /\ rqueue' = got_.queue
                /\ pc' = [pc EXCEPT !["shell"] = "put"]
                /\ UNCHANGED rmsg
    /\ UNCHANGED <<exit, _execution_state, id2region>>
    /\ UNCHANGED <<kernelVars, callVars>>
    /\ UNCHANGED <<shown, prompted, returned, early>>

\* ShellMessageReceiver.run, after the lock is released: queue.put(msg).
ShellPut ==
    /\ pc["shell"] = "put"
    /\ queues' = QueuePut(queues, rqueue, rmsg["shell"])
    /\ rqueue' = NoQueue
    /\ rmsg' = [rmsg EXCEPT !["shell"] = NoMsg]
    /\ pc' = [pc EXCEPT !["shell"] = AfterIteration(FALSE)]
    /\ UNCHANGED <<exit, _execution_state, shell_msg_queues, id2region>>
    /\ UNCHANGED <<kernelVars, callVars>>
    /\ UNCHANGED viewVars

\* A variant of IOPubDispatch in which a stream notification marks the
\* kernel busy.
IOPubDispatchStreamBusy(msg, state) ==
    LET msg_type == ParseMsgType(msg.msg_type)
    IN  CASE msg_type = "STATUS" ->
               IF ParseExecState(msg.execution_state) = KeyError
               THEN [state |-> state, raised |-> TRUE]
               ELSE [state |-> ParseExecState(msg.execution_state),
                     raised |-> FALSE]
          [] msg_type = "STREAM" -> [state |-> "BUSY", raised |-> ~msg.fields]
          [] OTHER -> [state |-> state, raised |-> FALSE]

\* The body of IOPubMessageReceiver.run for one notification: the new value
\* of _execution_state and whether the handling raised.  A status whose
\* label is no member of ExecState raises KeyError before the assignment; a
\* content notification raises when a field it reads is missing; a type that
\* is no member of MsgType is UNKNOWN and matches no branch.
IOPubDispatch(msg, state) ==
    LET msg_type == ParseMsgType(msg.msg_type)
    IN  CASE msg_type = "STATUS" ->
               IF ParseExecState(msg.execution_state) = KeyError
               THEN [state |-> state, raised |-> TRUE]
               ELSE [state |-> ParseExecState(msg.execution_state),
                     raised |-> FALSE]
          [] msg_type = "STREAM" -> [state |-> state, raised |-> ~msg.fields]
          [] OTHER -> [state |-> state, raised |-> FALSE]

\* IOPubMessageReceiver.run: handle the notification just polled.  For a
\* notification that comes with its content, the target is looked up in
\* id2region and the content is rendered under the inline_output setting of
\* the moment.
IOPubHandle ==
    /\ pc["iopub"] = "handle"
    /\ LET msg == rmsg["iopub"]
           d == IOPubDispatch(msg, _execution_state)
       IN  /\ _execution_state' = d.state
           /\ IF "content" \in DOMAIN msg
              THEN \E inline \in BOOLEAN :
                     LET target == Id2RegionGet(id2region, msg.parent_id)
                         r == IOPubContent(msg, target, inline)
                     IN  /\ shown' = [msg |-> msg, target |-> target,
                                      inline |-> inline, calls |-> r.calls,
                                      effects |-> r.effects, error |-> r.error]
                         /\ pc' = [pc EXCEPT !["iopub"] =
                                     AfterIteration(r.error # "none")]
              ELSE /\ pc' = [pc EXCEPT !["iopub"] = AfterIteration(d.raised)]
                   /\ UNCHANGED shown
    /\ rmsg' = [rmsg EXCEPT !["iopub"] = NoMsg]
    /\ UNCHANGED <<exit, rqueue, shell_msg_queues, queues, id2region>>
    /\ UNCHANGED <<kernelVars, callVars>>
    /\ UNCHANGED <<returned, prompted, lock, early>>

\* StdInMessageReceiver._handle_input_request: the prompts it opens and
\* whether it raises.  With the password flag set, the argument
\* self._kernel.input is evaluated first, and KernelConnection has no such
\* attribute.  Otherwise an input panel opens, its on_done being
\* client.input and its on_cancel the local function interrupt, which would
\* raise when called (the receiver has no kernel_id, and interrupt_kernel
\* takes no argument).
HandleInputRequest(password) ==
    IF password
    THEN [prompts |-> <<>>, raised |-> TRUE]
    ELSE [prompts |-> <<[kind |-> "plain", on_done |-> "client.input",
                         on_cancel |-> "raises"]>>,
          raised |-> FALSE]

\* StdInMessageReceiver.run: msg["msg_type"] and msg["content"] (KeyError
\* when missing), then the test msg_type == MsgType.INPUT_REQUEST, where
\* msg_type is the str of the message, and _handle_input_request when the
\* test succeeds.
StdinHandle ==
    /\ pc["stdin"] = "handle"
    /\ LET msg == rmsg["stdin"]
           h == IF ~msg.fields
                THEN [prompts |-> <<>>, raised |-> TRUE]
                ELSE IF PyEq(Str(msg.msg_type), MsgTypeMember("INPUT_REQUEST"))
                     THEN HandleInputRequest(msg.password)
                     ELSE [prompts |-> <<>>, raised |-> FALSE]
       IN  /\ prompted' = prompted \o h.prompts
           /\ pc' = [pc EXCEPT !["stdin"] = AfterIteration(h.raised)]
    /\ rmsg' = [rmsg EXCEPT !["stdin"] = NoMsg]
    /\ UNCHANGED <<exit, rqueue>>
    /\ UNCHANGED <<connVars, kernelVars, callVars>>
    /\ UNCHANGED <<shown, returned, lock, early>>

(* ------------------------------ callers ------------------------------- *)

\* A variant of NotIdle that turns away a busy kernel only.
NotIdleBusyOnly(state) == state = "BUSY"

\* The test at the head of get_complete:
\* self.execution_state is not ExecState.IDLE.
NotIdle(state) == state # "IDLE"

\* A thread enters a method: its locals are fresh.
Enter(c, kind) ==
    /\ ckind' = [ckind EXCEPT ![c] = kind]
    /\ result' = [result EXCEPT ![c] = "none"]

\* A call hands control back to its caller with the given outcome; its
\* locals are gone (the model remembers the msg_id the call had).
Return(c, how) ==
    /\ cpc' = [cpc EXCEPT ![c] = "idle"]
    /\ result' = [result EXCEPT ![c] = how]
    /\ ckind' = [ckind EXCEPT ![c] = "none"]
    /\ observed' = [observed EXCEPT ![c] = "none"]
    /\ UNCHANGED cid
    /\ cqueue' = [cqueue EXCEPT ![c] = NoQueue]
    /\ got' = [got EXCEPT ![c] = NoId]

\* The client sends a request for caller c and returns its fresh msg_id.
ClientSend(c) ==
    /\ nextId <= MaxIds
    /\ cid' = [cid EXCEPT ![c] = nextId]
    /\ nextId' = nextId + 1
    /\ pending' = pending \cup {nextId}
    /\ UNCHANGED <<chan, nIOPub, nStdin, lastStatus>>

\* get_complete is called and evaluates self.execution_state.
GetComplete(c) ==
    /\ cpc[c] = "idle"
    /\ Enter(c, "complete")
    /\ observed' = [observed EXCEPT ![c] = _execution_state]
    /\ cpc' = [cpc EXCEPT ![c] = "test"]
    /\ cid' = [cid EXCEPT ![c] = NoId]
    /\ UNCHANGED <<cqueue, got>>
    /\ UNCHANGED <<connVars, kernelVars, recvVars>>
    /\ UNCHANGED viewVars

\* get_complete: the state it read is not IDLE, so it returns [].
ReturnNotIdle(c) ==
    /\ cpc[c] = "test"
    /\ NotIdle(observed[c])
    /\ Return(c, "not_idle")
    /\ UNCHANGED <<connVars, kernelVars, recvVars>>
    /\ UNCHANGED viewVars

\* get_complete: the state it read is IDLE, so
\* msg_id = self.client.complete(code, cursor_pos).
ClientComplete(c) ==
    /\ cpc[c] = "test"
    /\ ~NotIdle(observed[c])
    /\ ClientSend(c)
    /\ cpc' = [cpc EXCEPT ![c] = "register"]
    /\ UNCHANGED <<ckind, observed, cqueue, got, result>>
    /\ UNCHANGED <<connVars, recvVars>>
    /\ UNCHANGED viewVars

\* get_inspection is called:
\* msg_id = self.client.inspect(code, cursor_pos, detail_level).
GetInspection(c) ==
    /\ cpc[c] = "idle"
    /\ Enter(c, "inspect")
    /\ ClientSend(c)
    /\ cpc' = [cpc EXCEPT ![c] = "register"]
    /\ UNCHANGED <<observed, cqueue, got>>
    /\ UNCHANGED <<connVars, recvVars>>
    /\ UNCHANGED viewVars

\* A variant of Inbox in which the caller stores a new Queue under its id,
\* whatever is there: self.shell_msg_queues[msg_id] = Queue().
InboxFresh(reg, heap, id) ==
    [reg |-> [k \in DOMAIN reg \cup {id} |->
                IF k = id THEN Len(heap) + 1 ELSE reg[k]],
     heap |-> Append(heap, <<>>), queue |-> Len(heap) + 1]

\* queue = self.shell_msg_queues[msg_id] in get_complete / get_inspection:
\* the same lookup on the defaultdict as the shell receiver's, so the caller
\* finds the Queue the receiver has made for its id, if it has made one.
Inbox(reg, heap, id) == DefaultDictGet(reg, heap, id)

\* get_complete / get_inspection, from shell_msg_queues_lock.acquire() to
\* release(): queue = self.shell_msg_queues[msg_id].
Register(c) ==
    /\ cpc[c] = "register"
    /\ CanAcquire(lock, c)
    /\ lock' = Release(c, FALSE)
    /\ LET got_ == Inbox(shell_msg_queues, queues, cid[c])
       IN  /\ shell_msg_queues' = got_.reg
           /\ queues' = got_.heap
           /\ cqueue' = [cqueue EXCEPT ![c] = got_.queue]
    /\ cpc' = [cpc EXCEPT ![c] = "wait"]
    /\ UNCHANGED <<_execution_state, id2region>>
    /\ UNCHANGED <<ckind, observed, cid, got, result>>
    /\ UNCHANGED <<kernelVars, recvVars>>
    /\ UNCHANGED <<shown, prompted, returned, early>>

\* How a call that got its reply ends: get_complete logs an exception raised
\* while it handles the reply and returns []; get_inspection has no except
\* clause for it, so it propagates once the finally block has run.
ReplyResult(kind, raised) ==
    IF ~raised THEN "reply"
    ELSE IF kind = "complete" THEN "swallowed" ELSE "propagated"

\* A variant of CompletionList that never looks at the metadata.
CompletionListHelium(recv_content) ==
    [i \in 1..Len(recv_content.matches) |->
       <<recv_content.matches[i] \o <<"\t", "Helium">>,
         recv_content.matches[i]>>]

\* The list get_complete makes of the content of the reply: from the type
\* hints when recv_content.get("metadata", {}) has the key
\* _jupyter_types_experimental, from the matches otherwise.
CompletionList(recv_content) ==
    IF "_jupyter_types_experimental" \in DOMAIN recv_content.metadata
    THEN LET hints == recv_content.metadata["_jupyter_types_experimental"]
         IN  [i \in 1..Len(hints) |->
                <<hints[i].text \o <<"\t">>
                  \o (IF hints[i].type = PyNone THEN <<"<no type info>">>
                      ELSE hints[i].type.v),
                  hints[i].text>>]
    ELSE [i \in 1..Len(recv_content.matches) |->
            <<recv_content.matches[i] \o <<"\t", "Helium">>,
              recv_content.matches[i]>>]

\* recv_msg = queue.get(timeout=timeout) returns the oldest message of the
\* caller's queue, and the caller handles it.  For a reply that comes with
\* its content, get_complete makes the list it returns; for any other, the
\* handling may raise.
QueueGet(c) ==
    /\ cpc[c] = "wait"
    /\ queues[cqueue[c]] # <<>>
    /\ got' = [got EXCEPT ![c] = Head(queues[cqueue[c]]).parent_id]
    /\ queues' = [queues EXCEPT ![cqueue[c]] = Tail(@)]
    /\ LET recv_msg == Head(queues[cqueue[c]])
       IN  IF "content" \in DOMAIN recv_msg /\ ckind[c] = "complete"
           THEN /\ result' = [result EXCEPT ![c] = ReplyResult(ckind[c], FALSE)]
                /\ returned' = [returned EXCEPT ![c] =
                                  CompletionList(recv_msg.content)]
           ELSE /\ \E raised \in BOOLEAN :
                     result' = [result EXCEPT ![c] =
                                  ReplyResult(ckind[c], raised)]
                /\ UNCHANGED returned
    /\ cpc' = [cpc EXCEPT ![c] = "finally"]
    /\ UNCHANGED <<_execution_state, shell_msg_queues, id2region>>
    /\ UNCHANGED <<ckind, observed, cid, cqueue>>
    /\ UNCHANGED <<kernelVars, recvVars>>
    /\ UNCHANGED <<shown, prompted, lock, early>>

\* queue.get(timeout=timeout) raises Empty: no reply came in time.
QueueTimeout(c) ==
    /\ cpc[c] = "wait"
    /\ queues[cqueue[c]] = <<>>
    /\ result' = [result EXCEPT ![c] = "timeout"]
    /\ cpc' = [cpc EXCEPT ![c] = "finally"]
    /\ UNCHANGED <<ckind, observed, cid, cqueue, got>>
    /\ UNCHANGED <<connVars, kernelVars, recvVars>>
    /\ UNCHANGED viewVars

\* The finally block of get_complete / get_inspection, from acquire() to
\* release(): self.shell_msg_queues.pop(msg_id, None); then the call returns
\* or raises.
Unregister(c) ==
    /\ cpc[c] = "finally"
    /\ CanAcquire(lock, c)
    /\ lock' = Release(c, FALSE)
    /\ shell_msg_queues' = PopEntry(shell_msg_queues, cid[c])
    /\ Return(c, result[c])
    /\ UNCHANGED <<_execution_state, queues, id2region>>
    /\ UNCHANGED <<kernelVars, recvVars>>
    /\ UNCHANGED <<shown, prompted, returned, early>>

\* execute_code is called: msg_id = self.client.execute(code).
ExecuteCode(c) ==
    /\ cpc[c] = "idle"
    /\ Enter(c, "execute")
    /\ ClientSend(c)
    /\ cpc' = [cpc EXCEPT ![c] = "record"]
    /\ UNCHANGED <<observed, cqueue, got>>
    /\ UNCHANGED <<connVars, recvVars>>
    /\ UNCHANGED viewVars

\* execute_code: self.id2region[msg_id] = (view, region); then it returns.
RecordRegion(c) ==
    /\ cpc[c] = "record"
    /\ id2region' = id2region \cup {cid[c]}
    /\ Return(c, "executed")
    /\ UNCHANGED <<_execution_state, shell_msg_queues, queues>>
    /\ UNCHANGED <<kernelVars, recvVars>>
    /\ UNCHANGED viewVars

\* The threads that take shell_msg_queues_lock.
Lockers == Callers \cup {"shell"}

\* shell_msg_queues_lock.acquire() returns in thread t, which is about to
\* look a queue up (a caller after its send, the shell receiver with a
\* message) or to pop its entry (a caller in its finally block).
Acquire(t) ==
    /\ lock # t
    /\ CanAcquire(lock, t)
    /\ IF t = "shell" THEN pc["shell"] = "handle"
       ELSE cpc[t] \in {"register", "finally"}
    /\ lock' = t
    /\ UNCHANGED <<connVars, kernelVars, recvVars, callVars>>
    /\ UNCHANGED <<returned, shown, prompted, early>>

(* --------------------------- specifications --------------------------- *)

ShellStep == LoopCheck("shell") \/ Poll("shell") \/ ShellLookup \/ ShellPut
IOPubStep == LoopCheck("iopub") \/ Poll("iopub") \/ IOPubHandle
StdinStep == LoopCheck("stdin") \/ Poll("stdin") \/ StdinHandle

\* The steps in which a calling thread has the client send a request.
SendStep(c) == ClientComplete(c) \/ GetInspection(c) \/ ExecuteCode(c)

\* The other steps of a thread inside get_complete or get_inspection.
LocalStep(c) ==
    \/ GetComplete(c)
    \/ ReturnNotIdle(c)
    \/ Register(c)
    \/ QueueGet(c)
    \/ QueueTimeout(c)
    \/ Unregister(c)

\* The whole connection: one calling thread, the kernel, the three
\* receivers and their shutdown, with at most MaxMsgs requests and MaxMsgs
\* messages on each channel.
Next ==
    \/ nextId <= MaxMsgs /\ SendStep("c1")
    \/ LocalStep("c1")
    \/ RecordRegion("c1")
    \/ \E id \in Ids : KernelShellReply(id)
    \/ \E m \in FewNotes : nIOPub < MaxMsgs /\ KernelPublish(m)
    \/ \E m \in StdinMsgs : KernelStdin(m)
    \/ \E r \in Receivers : Shutdown(r)
    \/ ShellStep
    \/ IOPubStep
    \/ StdinStep

Spec == Init /\ [][Next]_vars

\* The reply registry: any number of calling threads at once, the kernel's
\* replies and the shell receiver.  The iopub receiver runs as well, since
\* get_complete goes past its test only once a status has made the state
\* IDLE.  The stdin receiver shares no state with these and is left out.
NextRegistry ==
    \/ \E c \in Callers : SendStep(c)
    \/ \E c \in Callers : LocalStep(c)
    \/ \E c \in Callers : RecordRegion(c)
    \/ \E id \in Ids : KernelShellReply(id)
    \/ nIOPub < MaxMsgs /\ KernelPublish(StatusMsg("idle"))
    \/ ShellStep
    \/ IOPubStep

SpecRegistry == Init /\ [][NextRegistry]_vars

\* The execution state: every notification of IOPubMsgs, the iopub
\* receiver, and calling threads in get_complete, which reads the state.
\* No reply ever comes here, so a get_complete that sent its request ends
\* by timeout.
NextState ==
    \/ \E c \in Callers : GetComplete(c) \/ ReturnNotIdle(c) \/ ClientComplete(c)
    \/ \E c \in Callers : Register(c) \/ QueueTimeout(c) \/ Unregister(c)
    \/ \E m \in IOPubMsgs : KernelPublish(m)
    \/ IOPubStep

SpecState == Init /\ [][NextState]_vars

\* The three receiver loops and their shutdown, fed by the kernel; the only
\* call is execute_code, whose reply the shell receiver gets.
NextLoops ==
    \/ nextId <= MaxMsgs /\ ExecuteCode("c1")
    \/ RecordRegion("c1")
    \/ \E id \in Ids : KernelShellReply(id)
    \/ \E m \in FewNotes : nIOPub < MaxMsgs /\ KernelPublish(m)
    \/ \E m \in StdinMsgs : KernelStdin(m)
    \/ \E r \in Receivers : Shutdown(r)
    \/ ShellStep
    \/ IOPubStep
    \/ StdinStep

\* Every receiver is a thread of its own that the scheduler keeps running,
\* and none of its steps blocks for ever: each poll has timeout=1 and
\* Queue.put on an unbounded Queue returns at once.
FairLoops ==
    /\ Init /\ [][NextLoops]_vars
    /\ WF_vars(ShellStep) /\ WF_vars(IOPubStep) /\ WF_vars(StdinStep)

\* The rendering of content notifications: execute_code, the content
\* notifications of the kernel about requests sent so far (or about none),
\* and the iopub receiver.
NextRender ==
    \/ ExecuteCode("c1")
    \/ RecordRegion("c1")
    \/ \E m \in ContentNotes :
         m.parent_id < nextId /\ nIOPub < MaxMsgs /\ KernelPublish(m)
    \/ IOPubStep

SpecRender == Init /\ [][NextRender]_vars

\* Completion: one get_complete call, the idle status that lets it go
\* ahead, the kernel's complete_reply with its content, and the shell
\* receiver that delivers it.
NextComplete ==
    \/ GetComplete("c1")
    \/ ReturnNotIdle("c1")
    \/ nextId <= MaxMsgs /\ ClientComplete("c1")
    \/ Register("c1")
    \/ QueueGet("c1")
    \/ QueueTimeout("c1")
    \/ Unregister("c1")
    \/ \E id \in Ids, content \in CompleteContents :
         KernelCompleteReply(id, content)
    \/ nIOPub < MaxMsgs /\ KernelPublish(StatusMsg("idle"))
    \/ ShellStep
    \/ IOPubStep

SpecComplete == Init /\ [][NextComplete]_vars

\* The lock: get_inspection calls of any number of threads, the kernel's
\* replies and the shell receiver, with acquire() as a step of its own, so
\* that a thread may hold the lock while others want it.
NextLock ==
    \/ \E c \in Callers : GetInspection(c)
    \/ \E c \in Callers : Register(c) \/ Unregister(c)
    \/ \E c \in Callers : QueueGet(c) \/ QueueTimeout(c)
    \/ \E t \in Lockers : Acquire(t)
    \/ \E id \in Ids : KernelShellReply(id)
    \/ ShellStep

SpecLock == Init /\ [][NextLock]_vars

\* The steps of thread t that take or give back shell_msg_queues_lock.
LockStep(t) ==
    IF t = "shell" THEN Acquire(t) \/ ShellLookup
    ELSE Acquire(t) \/ Register(t) \/ Unregister(t)

\* SpecLock with threads that keep running: the shell receiver's loop never
\* stops for good (its poll has timeout=1, Queue.put on an unbounded Queue
\* returns at once), and a thread at acquire() goes on once the lock is
\* free for it; nothing between acquire() and release() blocks.
FairLock ==
    /\ Init /\ [][NextLock]_vars
    /\ WF_vars(ShellStep)
    /\ \A t \in Lockers : WF_vars(LockStep(t))

TypeOK ==
    /\ _execution_state \in ExecStateNames
    /\ DOMAIN shell_msg_queues \subseteq Ids
    /\ \A id \in DOMAIN shell_msg_queues : shell_msg_queues[id] \in DOMAIN queues
    /\ id2region \subseteq Ids
    /\ nextId \in 1..(MaxIds + 1)
    /\ pending \subseteq Ids
    /\ \A i \in 1..Len(chan["shell"]) :
         chan["shell"][i] \in ShellMsgs \cup CompleteReplies
    /\ \A i \in 1..Len(chan["iopub"]) :
         chan["iopub"][i] \in IOPubMsgs \cup ContentNotes
    /\ \A i \in 1..Len(chan["stdin"]) : chan["stdin"][i] \in StdinMsgs
    /\ \A r \in Receivers : pc[r] \in {"check", "poll", "handle", "put", "done"}
    /\ \A c \in Callers :
         cpc[c] \in {"idle", "test", "register", "wait", "finally", "record"}
    /\ shown.msg \in ContentNotes \cup {NoMsg}
    /\ lock \in {Free, "shell"} \cup Callers
    /\ early \subseteq Ids

(* ----------------------------- properties ------------------------------ *)

\* A get_complete or get_inspection call for id has sent its request and
\* has not yet returned.
Awaiting(id) ==
    \E c \in Callers :
        /\ ckind[c] \in {"complete", "inspect"}
        /\ cid[c] = id
        /\ cpc[c] \in {"register", "wait", "finally"}

\* The shell receiver finishes the lookup of the message it polled.
ShellDelivers == pc["shell"] = "handle" /\ pc'["shell"] # "handle"

\* C1: shell_msg_queues holds an entry for a message id only while a
\* get_complete or get_inspection call for that id has sent its request and
\* has not yet returned; no entry for a call's id remains once the call has
\* returned.
C1_EntryOnlyWhileAwaiting ==
    \A id \in DOMAIN shell_msg_queues : Awaiting(id)

\* C2: when the shell receiver gets a message whose parent msg_id has no
\* entry in shell_msg_queues, the message is dropped: the registry and every
\* inbox are the same before and after, and the iteration just ends.
C2_UnregisteredReplyDropped ==
    [][(/\ ShellDelivers
        /\ rmsg["shell"].parent_id # NoId
        /\ rmsg["shell"].parent_id \notin DOMAIN shell_msg_queues)
       => (/\ shell_msg_queues' = shell_msg_queues
           /\ queues' = queues
           /\ pc'["shell"] = "check")]_vars

\* C3: whenever a get_complete or get_inspection call that sent a request
\* hands control back (by returning or by raising), the step in which it
\* does so leaves no entry for its msg_id in shell_msg_queues.
C3_EntryRemovedOnReturn ==
    [][\A c \in Callers :
         (/\ ckind[c] \in {"complete", "inspect"}
          /\ cid[c] # NoId
          /\ cpc[c] # "idle"
          /\ cpc'[c] = "idle")
         => cid[c] \notin DOMAIN shell_msg_queues']_vars

\* Both kinds of call have come back after an exception raised while the
\* reply was handled, get_complete swallowing it and get_inspection letting
\* it propagate, and the registry is empty.
C3_Witness ==
    /\ \E c \in Callers : cpc[c] = "idle" /\ result[c] = "swallowed"
    /\ \E c \in Callers : cpc[c] = "idle" /\ result[c] = "propagated"
    /\ DOMAIN shell_msg_queues = {}

\* Every message of the Queue object q names parent id.
AllFor(q, id) ==
    \A i \in 1..Len(queues[q]) : queues[q][i].parent_id = id

\* C4: a shell message with parent msg_id X is only ever put into the inbox
\* obtained for X (the one registered under X, the one a call for X waits
\* on), a call only receives a reply that names its own msg_id, and a call
\* that has received a reply receives no other.
C4_ReplyReachesOwnInbox ==
    /\ [](\A id \in DOMAIN shell_msg_queues : AllFor(shell_msg_queues[id], id))
    /\ [](\A c \in Callers :
            /\ cqueue[c] # NoQueue => AllFor(cqueue[c], cid[c])
            /\ got[c] # NoId => got[c] = cid[c])
    /\ [][\A c \in Callers : got[c] # NoId => got'[c] \in {got[c], NoId}]_vars

\* Two calls are in flight at once; one has received its reply while the
\* reply to the other waits in the other's inbox.
C4_Witness ==
    \E c, d \in Callers :
        /\ c # d
        /\ cpc[c] = "finally" /\ got[c] = cid[c]
        /\ cpc[d] = "wait" /\ queues[cqueue[d]] # <<>>

\* C5: a get_complete call that read an execution state other than IDLE
\* returns [] as its next step, and that step sends no request and leaves
\* shell_msg_queues and every inbox as they are.
C5_NotIdleReturnsEmpty ==
    [][\A c \in Callers :
         (cpc[c] = "test" /\ observed[c] # "IDLE" /\ cpc'[c] # "test")
         => (/\ cpc'[c] = "idle"
             /\ result'[c] = "not_idle"
             /\ nextId' = nextId
             /\ pending' = pending
             /\ shell_msg_queues' = shell_msg_queues
             /\ queues' = queues)]_vars

\* One call found the state UNKNOWN, as it is before any status, and came
\* back empty-handed; another has read STARTING; no request was ever sent.
C5_Witness ==
    \E c, d \in Callers :
        /\ cpc[c] = "idle" /\ result[c] = "not_idle"
        /\ cpc[d] = "test" /\ observed[d] = "STARTING"
        /\ nextId = 1

\* The iopub receiver finishes the handling of the notification it polled.
IOPubHandles == pc["iopub"] = "handle" /\ pc'["iopub"] # "handle"

\* C6: when the iopub receiver handles a status notification whose label is
\* not one of busy, idle, starting, the execution state becomes UNKNOWN.
C6_BadLabelYieldsUnknown ==
    [][(/\ IOPubHandles
        /\ rmsg["iopub"].msg_type = "status"
        /\ rmsg["iopub"].execution_state \notin {"busy", "idle", "starting"})
       => _execution_state' = "UNKNOWN"]_vars

\* C7: once the iopub receiver has handled every notification published so
\* far, the execution state is the one named by the last published status
\* with a recognised label, whatever was published around it.
C7_LastStatusWins ==
    (/\ chan["iopub"] = <<>>
     /\ pc["iopub"] # "handle"
     /\ lastStatus # "none")
    => _execution_state = Upper(lastStatus)

\* Three notifications were published and handled, the last recognised
\* status being idle, and the state is IDLE.
C7_Witness ==
    /\ nIOPub = MaxNotes
    /\ chan["iopub"] = <<>>
    /\ pc["iopub"] = "poll"
    /\ lastStatus = "idle"
    /\ _execution_state = "IDLE"

\* C8: _execution_state changes only in a step in which the iopub receiver
\* handles a status notification.
C8_OnlyStatusWrites ==
    [][_execution_state' # _execution_state
       => (IOPubHandles /\ rmsg["iopub"].msg_type = "status")]_vars

\* The state has been changed by a status, and since then a get_complete
\* call has sent its request, got its reply and returned, and the shell and
\* stdin receivers have taken their messages.
C8_Witness ==
    /\ _execution_state = "IDLE"
    /\ cpc["c1"] = "idle" /\ result["c1"] = "reply"
    /\ nStdin = MaxMsgs /\ chan["stdin"] = <<>> /\ pc["stdin"] = "poll"

C10_ShutdownEndsLoop ==
    /\ \A r \in Receivers : exit[r] ~> (pc[r] = "done")
    /\ [][\A r \in Receivers :
            (exit[r] /\ pc[r] = "check") => pc'[r] \in {"check", "done"}]_vars
    /\ [](\A r \in Receivers : pc[r] = "done" => exit[r])

\* The iopub loop has ended; the shell receiver, shut down since its last
\* while test, is putting the message its poll returned; the stdin
\* receiver, not shut down, is handling a message.
C10_Witness ==
    /\ pc["iopub"] = "done"
    /\ exit["shell"] /\ pc["shell"] = "put"
    /\ ~exit["stdin"] /\ pc["stdin"] = "handle"

\* C11: once a get_complete or get_inspection call whose reply did not come
\* within its timeout has returned (without raising: get_complete with [],
\* get_inspection without touching the panel), shell_msg_queues holds no
\* entry for the msg_id the call had.
C11_TimeoutLeavesNoEntry ==
    \A c \in Callers :
        (cpc[c] = "idle" /\ result[c] = "timeout")
        => cid[c] \notin DOMAIN shell_msg_queues

\* The stdin receiver finishes the handling of the message it polled.
StdinHandles == pc["stdin"] = "handle" /\ pc'["stdin"] # "handle"

\* C12: the handling of every input-request message that the stdin receiver
\* polled opens exactly one prompt, the password-style one when the
\* message's password flag is set and the plain input panel otherwise.
C12_InputRequestPrompts ==
    [][(/\ StdinHandles
        /\ rmsg["stdin"].fields
        /\ rmsg["stdin"].msg_type = "input_request")
       => (/\ Len(prompted') = Len(prompted) + 1
           /\ prompted'[Len(prompted')].kind =
                 IF rmsg["stdin"].password THEN "password" ELSE "plain")]_vars

\* The iopub receiver has handled a content notification that had all its
\* fields, of one of the given types.
Handled(types) ==
    /\ shown # NoShow
    /\ shown.msg.fields
    /\ shown.msg.msg_type \in types

\* The calls and the editor calls of the last handling made from the given
\* places.
CallsFrom(sites) == {i \in 1..Len(shown.calls) : shown.calls[i].site \in sites}
EffectsFrom(sites) ==
    {i \in 1..Len(shown.effects) : shown.effects[i].site \in sites}

\* C13: for a display_data or execute_result notification whose bundle has
\* both text/plain and image/png, whatever the inline_output setting and
\* whether or not a target is recorded for the parent id, the text is
\* rendered exactly once (in the output view or at the target), the image is
\* rendered exactly once, and nothing is called for text/html.
C13_PlainAndImageOnce ==
    (/\ Handled({"display_data", "execute_result"})
     /\ {"text/plain", "image/png"} \subseteq DOMAIN shown.msg.content.data)
    => (/\ Cardinality(EffectsFrom({"plain.text", "plain.inline"})) = 1
        /\ Cardinality(EffectsFrom({"image.block", "image.inline"})) = 1
        /\ CallsFrom({"html.block", "html.inline"}) = {})

\* No escape character of the text is followed, anywhere later, by an m.
NoAnsiEscape(text) ==
    \A i \in 1..Len(text) :
        text[i] = ESC => \A j \in (i + 1)..Len(text) : text[j] # "m"

\* C14: for an error notification, the text given to _write_text_to_view
\* has no escape sequence left and reads "Error[<n>]: <ename>, <evalue>."
\* with the notification's own values, followed by the traceback lines
\* joined by newlines.
C14_ErrorTextFormatted ==
    Handled({"error"})
    => LET text == shown.calls[1].arg
           c == shown.msg.content
       IN  /\ NoAnsiEscape(text)
           /\ text = <<"\nError[">> \o c.execution_count \o <<"]: ">>
                     \o c.ename \o <<", ">> \o c.evalue \o <<".">>
                     \o <<"\nTraceback:\n">>
                     \o remove_ansi_escape(Join(c.traceback))

\* The iopub receiver finishes the handling of a notification that came
\* with its content.
IOPubRenders == IOPubHandles /\ "content" \in DOMAIN rmsg["iopub"]

\* C17: id2region gets the msg_id of an execute_code call only in a step of
\* its own after client.execute has returned the id, and a notification
\* about that id which the iopub receiver handles in between finds no
\* target: view and region are both None.
C17_TargetRecordedAfterSend ==
    /\ [][id2region' # id2region
          => \E c \in Callers :
                 /\ cpc[c] = "record"
                 /\ cid[c] \in 1..(nextId - 1)
                 /\ id2region' = id2region \cup {cid[c]}]_vars
    /\ [][(/\ IOPubRenders
           /\ \E c \in Callers :
                  cpc[c] = "record" /\ cid[c] = rmsg["iopub"].parent_id)
          => (/\ shown'.msg = rmsg["iopub"]
              /\ ~shown'.target)]_vars

\* execute_code has sent its request and not yet recorded the target, and
\* the iopub receiver has already handled a stream notification about that
\* request, with no target.
C17_Witness ==
    /\ cpc["c1"] = "record"
    /\ Handled({"stream"})
    /\ shown.msg.parent_id = cid["c1"]
    /\ ~shown.target
    /\ cid["c1"] \notin id2region

\* C18: for every bundle given to _write_mime_data_to_view, the text/html
\* branch runs exactly when text/plain is absent and text/html is present,
\* and the image branch runs exactly when image/png is present, whatever
\* the text branch before it did.
C18_MimeBranches ==
    Handled({"display_data", "execute_result"})
    => LET keys == DOMAIN shown.msg.content.data
       IN  /\ CallsFrom({"html.block"}) # {}
                <=> ("text/plain" \notin keys /\ "text/html" \in keys)
           /\ CallsFrom({"image.block"}) # {} <=> "image/png" \in keys

\* C19: for every stream notification, _handle_stream gives the text
\* "\n(<name>):\n<text>" to _write_text_to_view, and gives an inline
\* fragment to _write_inline_html_phantom if and only if a target is
\* recorded for the parent id and the stream text is not empty.
C19_StreamFragment ==
    Handled({"stream"})
    => LET c == shown.msg.content
       IN  /\ \E i \in CallsFrom({"stream.text"}) :
                  shown.calls[i].arg = <<"\n(">> \o c.name \o <<"):\n">> \o c.text
           /\ CallsFrom({"stream.inline"}) # {}
                <=> (shown.target /\ c.text # <<>>)

\* The calls a notification's handling makes that need no target.
NeedNoTarget(msg) ==
    CASE msg.msg_type = "execute_input" -> {"input.blank", "input.code"}
      [] msg.msg_type = "error" -> {"error.text"}
      [] msg.msg_type = "stream" -> {"stream.text"}
      [] OTHER ->
           LET keys == DOMAIN msg.content.data
           IN  (IF "text/plain" \in keys THEN {"plain.text"}
                ELSE IF "text/html" \in keys THEN {"html.block"} ELSE {})
               \cup (IF "image/png" \in keys THEN {"image.block"} ELSE {})

\* C20: for every content notification whose parent msg_id has no entry in
\* id2region, the handling goes on with no target, makes every call that
\* needs no target, and raises nothing.
C20_NoTargetTolerated ==
    (/\ Handled({"execute_input", "error", "stream", "display_data",
                 "execute_result"})
     /\ ~shown.target)
    => (/\ shown.error = "none"
        /\ \A site \in NeedNoTarget(shown.msg) : CallsFrom({site}) # {})

\* C15: when get_complete takes a reply that comes with its content, the
\* list it returns has one pair per match, in the order of the reply.
\* Without type metadata the pair of a match m is (m + TAB + "Helium", m);
\* with it the pair of a hint is (text + TAB + type, text), where
\* "<no type info>" stands for a type that is None.
C15_CompletionPairs ==
    [][\A c \in Callers :
         (/\ ckind[c] = "complete"
          /\ cpc[c] = "wait" /\ cpc'[c] = "finally"
          /\ queues[cqueue[c]] # <<>>
          /\ "content" \in DOMAIN Head(queues[cqueue[c]]))
         => LET reply == Head(queues[cqueue[c]]).content
                out == returned'[c]
            IN  /\ Len(out) = Len(reply.matches)
                /\ IF "_jupyter_types_experimental" \in DOMAIN reply.metadata
                   THEN LET hints ==
                              reply.metadata["_jupyter_types_experimental"]
                        IN  \A i \in 1..Len(hints) :
                              /\ out[i][2] = hints[i].text
                              /\ out[i][1] =
                                   hints[i].text \o <<"\t">>
                                   \o (IF hints[i].type.py = "NoneType"
                                       THEN <<"<no type info>">>
                                       ELSE hints[i].type.v)
                   ELSE \A i \in 1..Len(reply.matches) :
                          out[i] = <<reply.matches[i] \o <<"\t", "Helium">>,
                                     reply.matches[i]>>]_vars

\* A get_complete call has returned the list for a reply with two hints,
\* the first without a type and the second with one.
C15_Witness ==
    /\ cpc["c1"] = "idle" /\ result["c1"] = "reply"
    /\ returned["c1"] =
         << <<(<<"foo", "\t", "<no type info>">>), (<<"foo">>)>>,
            <<(<<"foobar", "\t", "function">>), (<<"foobar">>)>> >>

\* The shell receiver puts the message it holds into the queue it looked up.
ShellPuts == pc["shell"] = "put" /\ pc'["shell"] # "put"

Accesses(t) ==
    IF t = "shell" THEN ShellDelivers
    ELSE \/ cpc[t] = "register" /\ cpc'[t] # "register"
         \/ cpc[t] = "finally" /\ cpc'[t] # "finally"

\* Thread t puts into, or takes from, a Queue object.
UsesQueue(t) ==
    IF t = "shell" THEN ShellPuts
    ELSE cpc[t] = "wait" /\ cpc'[t] # "wait"

ShellHolds(id) ==
    /\ pc["shell"] \in {"handle", "put"}
    /\ rmsg["shell"].parent_id = id

\* The Queue object q has a reply to request id in it.
HasReply(q, id) == \E i \in 1..Len(queues[q]) : queues[q][i].parent_id = id

C22_CompleteSentOnlyWhenIdle ==
    [][\A c \in Callers :
         (cpc[c] = "test" /\ cpc'[c] = "register")
             => _execution_state = "IDLE"]_vars

\* Thread t stands at an access to shell_msg_queues: between acquire() and
\* release(), or at that acquire().
Accessing(t) ==
    IF t = "shell" THEN pc["shell"] = "handle"
    ELSE cpc[t] \in {"register", "finally"}

\* C23: shell_msg_queues_lock is held only by a thread that stands at its
\* dictionary access: not by the receiver at its poll, at queue.put or after
\* a lookup that raised, not by a caller in queue.get or after its call.
\* So whoever holds the lock can go on and release it, and a thread that
\* wants the lock never waits for a thread that waits for it or for a
\* message.  With threads that keep running, a receiver that has a message
\* is done with it (put into its queue, or KeyError logged) whatever the
\* callers wait for, and every caller at acquire() gets past its access.
C23_LockNeverHeldWhileBlocking ==
    /\ [](\A t \in Lockers : lock = t => Accessing(t))
    /\ [](\A c \in Callers : cpc[c] = "wait" => lock # c)
    /\ (pc["shell"] = "handle") ~> (pc["shell"] = "check")
    /\ \A c \in Callers : (cpc[c] = "register") ~> (cpc[c] = "wait")
    /\ \A c \in Callers : (cpc[c] = "finally") ~> (cpc[c] = "idle")

\* The shell receiver holds the lock for the lookup of a reply, the caller
\* that reply is for is blocked in queue.get, and another caller stands at
\* the acquire() of its finally block.
C23_Witness ==
    /\ lock = "shell" /\ pc["shell"] = "handle"
    /\ \E c, d \in Callers :
           /\ cpc[c] = "wait" /\ rmsg["shell"].parent_id = cid[c]
           /\ cpc[d] = "finally"

====
